---- MODULE Spec2Model ----
(***************************************************************************)
(* A model of the client-side router of flxyJS (the module-level Router   *)
(* of src/src/common/template.js, lines 135-471): the route table, the    *)
(* dynamic-segment matcher, the middleware pipeline, the navigation lock   *)
(* and the dispatch cycle (handle) with its suspension points.             *)
(*                                                                         *)
(* Representation.                                                         *)
(*  - A JavaScript object with string keys, and a URLSearchParams, is a    *)
(*    sequence of <<key, value>> pairs in insertion order.                 *)
(*  - A string that the code parses or compares (a query string, a         *)
(*    navigation target) is a sequence of tokens: names, values and the    *)
(*    separators "?", "=", "&".  Percent-encoding is injective on names    *)
(*    and values, so it is left out.                                       *)
(*  - A route name is a string; Segments gives its "/"-separated segments. *)
(*  - An asynchronous run of handle() is a record of `cycles`; it advances *)
(*    one continuation at a time (the code between two awaits).            *)
(***************************************************************************)
EXTENDS Integers, Sequences, FiniteSets, TLC

VARIABLES
    Router,     \* the Router object: template.js 159-167, plus Router.navigating
    window,     \* window.location.search and the browser's session history
    cycles,     \* every run of handle() started so far, in start order
    lastCall,   \* observer: the entry point that made the last step, and what it saw
    Emitter,    \* the Emitter object of device.js 444-446, and what its listeners did
    stateManager, \* the stateManager object of state.js 8-13, and what set() did
    Template    \* the Template object of template.js 6-13, and the calls of render/preload

vars == <<Router, window, cycles, lastCall, Emitter, stateManager, Template>>

\* Bound: the number of dispatch cycles (runs of handle) a behaviour may start.
MaxCycles == 2

\* Bound: the number of listeners subscribed at the same time.
MaxListeners == 2

\* JavaScript's null / undefined where a string is expected.
NULL == "null"

(***************************************************************************)
(* JavaScript objects and URLSearchParams as ordered pair lists            *)
(***************************************************************************)

has(o, k) == \E i \in 1..Len(o) : o[i][1] = k

\* URLSearchParams.get: the value of the first pair named k, or null.
get(o, k) ==
    IF has(o, k)
    THEN o[CHOOSE i \in 1..Len(o) :
                /\ o[i][1] = k
                /\ \A j \in 1..(i - 1) : o[j][1] # k][2]
    ELSE NULL

\* o[k] = v on an object: an existing key keeps its position, a new key is
\* appended.
set(o, k, v) ==
    IF has(o, k)
    THEN [i \in 1..Len(o) |-> IF o[i][1] = k THEN <<k, v>> ELSE o[i]]
    ELSE Append(o, <<k, v>>)

\* The pairs of o whose key is not k, in their order.
RECURSIVE filterPairs(_, _)
filterPairs(o, k) ==
    IF o = <<>> THEN <<>>
    ELSE IF Head(o)[1] = k THEN filterPairs(Tail(o), k)
    ELSE <<Head(o)>> \o filterPairs(Tail(o), k)

\* { ...a, ...b }
RECURSIVE spread(_, _)
spread(a, b) ==
    IF b = <<>> THEN a
    ELSE spread(set(a, Head(b)[1], Head(b)[2]), Tail(b))

\* Object.fromEntries(iterable of pairs): later pairs overwrite earlier ones.
fromEntries(pairs) == spread(<<>>, pairs)

\* URLSearchParams.prototype.toString: "k1=v1&k2=v2", as tokens.
RECURSIVE toString(_)
toString(usp) ==
    IF usp = <<>> THEN <<>>
    ELSE IF Len(usp) = 1 THEN <<usp[1][1], "=", usp[1][2]>>
    ELSE <<usp[1][1], "=", usp[1][2], "&">> \o toString(Tail(usp))

\* new URLSearchParams(string): a leading "?" is dropped, pairs are split at
\* "&" and "=".
RECURSIVE URLSearchParams(_)
URLSearchParams(s) ==
    IF s = <<>> THEN <<>>
    ELSE IF Head(s) \in {"?", "&"} THEN URLSearchParams(Tail(s))
    ELSE IF Len(s) >= 3 /\ s[2] = "="
         THEN <<<<s[1], s[3]>>>> \o URLSearchParams(SubSeq(s, 4, Len(s)))
         ELSE <<<<s[1], "">>>> \o URLSearchParams(Tail(s))

\* new URL(path, origin): the part before "?" is the pathname, the rest the
\* search string.
pathname(path) == IF Head(path) = NULL THEN "/null" ELSE Head(path)
searchParams(path) == URLSearchParams(Tail(path))

(***************************************************************************)
(* Route names                                                             *)
(***************************************************************************)

\* The characters of the strings the model uses as route names, as parameter
\* names and as captured values (a JavaScript string is its characters).
Chars(name) ==
    CASE name = "/home" -> <<"/", "h", "o", "m", "e">>
      [] name = "/404" -> <<"/", "4", "0", "4">>
      [] name = "/nowhere" -> <<"/", "n", "o", "w", "h", "e", "r", "e">>
      [] name = "/null" -> <<"/", "n", "u", "l", "l">>
      [] name = "/about/42" -> <<"/", "a", "b", "o", "u", "t", "/", "4", "2">>
      [] name = "/about/me" -> <<"/", "a", "b", "o", "u", "t", "/", "m", "e">>
      [] name = "/about/:id" -> <<"/", "a", "b", "o", "u", "t", "/", ":", "i", "d">>
      [] name = "/about/:slug" -> <<"/", "a", "b", "o", "u", "t", "/", ":", "s", "l", "u", "g">>
      [] name = "/about" -> <<"/", "a", "b", "o", "u", "t">>
      [] name = "/about/" -> <<"/", "a", "b", "o", "u", "t", "/">>
      [] name = "/about/42/extra" -> <<"/", "a", "b", "o", "u", "t", "/", "4", "2", "/", "e", "x", "t", "r", "a">>
      [] name = "/a.b/:id" -> <<"/", "a", ".", "b", "/", ":", "i", "d">>
      [] name = "/a.b/42" -> <<"/", "a", ".", "b", "/", "4", "2">>
      [] name = "/axb/42" -> <<"/", "a", "x", "b", "/", "4", "2">>
      [] name = "/a/b/42" -> <<"/", "a", "/", "b", "/", "4", "2">>
      [] name = "42" -> <<"4", "2">>
      [] name = "me" -> <<"m", "e">>
      [] name = "id" -> <<"i", "d">>
      [] name = "slug" -> <<"s", "l", "u", "g">>
      [] OTHER -> <<name>>

\* The strings a match can hand back: names of parameters, captured values.
Texts == {"42", "me", "id", "slug"}

\* The string made of the characters chars.
Text(chars) ==
    IF \E t \in Texts : Chars(t) = chars
    THEN CHOOSE t \in Texts : Chars(t) = chars
    ELSE "(other)"

(***************************************************************************)
(* Route table                                                             *)
(***************************************************************************)

\* Index of the entry stored under key in the table, 0 when there is none
\* (Router.routes[key] is undefined).
routeIndex(routes, key) ==
    IF \E i \in 1..Len(routes) : routes[i].key = key
    THEN CHOOSE i \in 1..Len(routes) : routes[i].key = key
    ELSE 0

\* paramRegex.test(routeName): a ":" followed by a character other than "/".
isDynamicName(routeName) ==
    LET chars == Chars(routeName)
    IN \E i \in 1..(Len(chars) - 1) : chars[i] = ":" /\ chars[i + 1] # "/"

\* JavaScript values handed to register(): typeof and Array.isArray look at
\* type, the table stores the identity id of a function.
Fn(id) == [type |-> "function", id |-> id, items |-> <<>>]
Arr(items) == [type |-> "array", id |-> "array", items |-> items]
Str(id) == [type |-> "string", id |-> id, items |-> <<>>]

\* typeof middlewares === "function" ? [middlewares] : middlewares
wrapMiddlewares(middlewares) ==
    IF middlewares.type = "function" THEN Arr(<<middlewares>>) ELSE middlewares

\* A validation that forgets the handler: only the middlewares are looked at.
registerThrowsForMiddlewaresOnly(handler, middlewares) ==
    LET list == wrapMiddlewares(middlewares)
    IN \/ list.type # "array"
       \/ \E i \in 1..Len(list.items) : list.items[i].type # "function"

\* The two tests of register() that throw: middlewares is no array or holds a
\* value that is no function; handler is no function.
registerThrows(handler, middlewares) ==
    LET list == wrapMiddlewares(middlewares)
    IN \/ list.type # "array"
       \/ \E i \in 1..Len(list.items) : list.items[i].type # "function"
       \/ handler.type # "function"

\* The identities of the functions of a validated middlewares argument.
storedMiddlewares(middlewares) ==
    LET list == wrapMiddlewares(middlewares)
    IN [i \in 1..Len(list.items) |-> list.items[i].id]

\* A table kept as a list of registrations: every call adds an entry.
registerAppends(routes, routeName, handler, middlewares) ==
    Append(routes, [key |-> routeName, handler |-> handler,
                    middlewares |-> middlewares,
                    isDynamic |-> isDynamicName(routeName)])

\* register(routeName, handler, middlewares) with valid arguments:
\* Router.routes[routeName] = { handler, middlewares, isDynamic }.  A key
\* already in the table keeps its place in the enumeration order.
register(routes, routeName, handler, middlewares) ==
    LET entry == [key |-> routeName, handler |-> handler,
                  middlewares |-> middlewares,
                  isDynamic |-> isDynamicName(routeName)]
        i == routeIndex(routes, routeName)
    IN IF i = 0 THEN Append(routes, entry)
       ELSE [routes EXCEPT ![i] = entry]

\* The length of the longest prefix of chars that [^/]+ can take.
tokenEnd(chars) ==
    IF \E i \in 1..Len(chars) : chars[i] = "/"
    THEN (CHOOSE i \in 1..Len(chars) :
             chars[i] = "/" /\ \A j \in 1..(i - 1) : chars[j] # "/") - 1
    ELSE Len(chars)

\* new RegExp(`^${key.replace(/:[^/]+/g, "([^/]+)")}$`): every ":" with the
\* run of non-"/" characters after it becomes the group ([^/]+); every other
\* character of the key goes into the expression as it is, where "." is the
\* expression that matches any character ("." is the only character of the
\* modelled keys that is special in a regular expression).
RECURSIVE compile(_)
compile(key) ==
    IF key = <<>> THEN <<>>
    ELSE IF Head(key) = ":" /\ Len(key) >= 2 /\ key[2] # "/"
         THEN <<[kind |-> "group", char |-> ""]>>
              \o compile(SubSeq(key, tokenEnd(Tail(key)) + 2, Len(key)))
         ELSE <<[kind |-> IF Head(key) = "." THEN "any" ELSE "char",
                 char |-> Head(key)]>>
              \o compile(Tail(key))

\* The anchored match of the compiled expression against chars: whether it
\* matches and the values of its groups.  A group is followed by "/" or by
\* the end of the expression, so the greedy match of [^/]+ is the only one.
RECURSIVE exec(_, _, _)
exec(regex, chars, groups) ==
    IF regex = <<>> THEN [matched |-> chars = <<>>, groups |-> groups]
    ELSE LET item == Head(regex)
             n == tokenEnd(chars)
         IN CASE item.kind = "group" ->
                   IF n = 0 THEN [matched |-> FALSE, groups |-> groups]
                   ELSE exec(Tail(regex), SubSeq(chars, n + 1, Len(chars)),
                             Append(groups, Text(SubSeq(chars, 1, n))))
              [] item.kind = "any" ->
                   IF chars = <<>> THEN [matched |-> FALSE, groups |-> groups]
                   ELSE exec(Tail(regex), Tail(chars), groups)
              [] OTHER ->
                   IF chars = <<>> \/ Head(chars) # item.char
                   THEN [matched |-> FALSE, groups |-> groups]
                   ELSE exec(Tail(regex), Tail(chars), groups)

\* routeName.match(regex)
match(key, routeName) == exec(compile(Chars(key)), Chars(routeName), <<>>)

regexMatch(key, routeName) == match(key, routeName).matched

\* key.match(/:([^/]+)/g).map(segment => segment.substring(1))
RECURSIVE dynamicKeys(_)
dynamicKeys(key) ==
    IF key = <<>> THEN <<>>
    ELSE IF Head(key) = ":" /\ Len(key) >= 2 /\ key[2] # "/"
         THEN <<Text(SubSeq(key, 2, tokenEnd(Tail(key)) + 1))>>
              \o dynamicKeys(SubSeq(key, tokenEnd(Tail(key)) + 2, Len(key)))
         ELSE dynamicKeys(Tail(key))

\* dynamicKeys.forEach((key, index) => params[key] = match[index + 1])
RECURSIVE captures(_, _, _)
captures(k, n, params) ==
    IF k = <<>> THEN params
    ELSE captures(Tail(k), Tail(n), set(params, Head(k), Head(n)))

\* What matchDynamicRoute returns for the entry i of the table (for no entry
\* when i is 0): { ...value, params, routeName: key }, or null.
matchOf(routes, routeName, i) ==
    IF i = 0 THEN [found |-> FALSE, routeName |-> NULL, params |-> <<>>]
    ELSE [found |-> TRUE, routeName |-> routes[i].key,
          params |-> captures(dynamicKeys(Chars(routes[i].key)),
                              match(routes[i].key, routeName).groups,
                              <<>>)]

\* The dynamic entries of the table whose pattern accepts routeName.
hits(routes, routeName) ==
    {i \in 1..Len(routes) :
        /\ routes[i].isDynamic
        /\ routeName # NULL /\ routeName # ""
        /\ regexMatch(routes[i].key, routeName)}

\* The smallest (FALSE: the greatest) element of a set of indices, 0 for the
\* empty set.
pick(indices, first) ==
    IF indices = {} THEN 0
    ELSE CHOOSE j \in indices :
             \A h \in indices : IF first THEN j <= h ELSE j >= h

\* A matcher whose loop does not return at the first hit: the last dynamic
\* entry that accepts routeName is the result.
matchDynamicRouteLast(routes, routeName) ==
    matchOf(routes, routeName, pick(hits(routes, routeName), FALSE))

\* matchDynamicRoute(routeName): the first dynamic entry, in enumeration
\* order, whose pattern accepts routeName.
matchDynamicRoute(routes, routeName) ==
    matchOf(routes, routeName, pick(hits(routes, routeName), TRUE))

\* The object getParsedQuery returns, given the value of the route parameter,
\* the index of the exact entry (0: none) and the result of the matcher.
parsedQuery(queryRoute, staticRoute, dynamicRoute) ==
    [routeName |-> IF staticRoute # 0 THEN queryRoute
                   ELSE IF dynamicRoute.found THEN dynamicRoute.routeName
                   ELSE NULL,
     queryRoute |-> queryRoute,
     params |-> IF staticRoute = 0 /\ dynamicRoute.found
                THEN dynamicRoute.params ELSE <<>>]

\* The same object when the dynamic patterns are tried before the exact
\* lookup.
parsedQueryDynamicFirst(queryRoute, staticRoute, dynamicRoute) ==
    [routeName |-> IF dynamicRoute.found THEN dynamicRoute.routeName
                   ELSE IF staticRoute # 0 THEN queryRoute
                   ELSE NULL,
     queryRoute |-> queryRoute,
     params |-> IF dynamicRoute.found THEN dynamicRoute.params ELSE <<>>]

\* A resolution that tries the dynamic patterns before the exact lookup.
getParsedQueryDynamicFirst(R) ==
    parsedQueryDynamicFirst(
        get(R.currentQuery, "route"),
        routeIndex(R.routes, get(R.currentQuery, "route")),
        matchDynamicRoute(R.routes, get(R.currentQuery, "route")))

\* getParsedQuery()
getParsedQuery(R) ==
    parsedQuery(
        get(R.currentQuery, "route"),
        routeIndex(R.routes, get(R.currentQuery, "route")),
        matchDynamicRoute(R.routes, get(R.currentQuery, "route")))

\* getCurrentQuery()
getCurrentQuery(R) == fromEntries(R.currentQuery)

(***************************************************************************)
(* The dispatch cycle.  The operators below take and return a record w of  *)
(* the three program variables, so that navigate and the popstate listener *)
(* can run the synchronous part of handle() inside their own step.         *)
(***************************************************************************)

\* Values a handler is seen to throw: an Error object (any value that cannot
\* be called), or a value that can be called (throw Error, without `new`).
ThrownValues == {"error", "callable"}

\* The ways a middleware settles: it returns (or resolves to) a truthy or a
\* falsy value, or it throws (or rejects).
MiddlewareOutcomes == {"truthy", "falsy", "threw"}

\* A run of handle() that has just been entered.
newCycle(origin) ==
    [origin |-> origin,            \* "navigate" or "popstate"
     pc |-> "start",               \* "middlewares", "handler", "done"
     queryRoute |-> NULL,          \* the route parameter of the query it read
     routeName |-> NULL,           \* the key of the route it resolved
     context |-> [path |-> NULL, query |-> <<>>, params |-> <<>>],
     handler |-> NULL,
     middlewares |-> <<>>,
     invoked |-> <<>>,             \* the middleware calls made, in call order
     settled |-> <<>>,             \* per middleware: "pending" or its outcome
     attached |-> {},              \* fields the middlewares put on the context
     handlerSaw |-> {},            \* fields on the context when the handler started
     stateWhenInvoked |-> NULL,    \* Router.routeStates[path] when the pipeline started
     handlerCalls |-> 0,
     handlerOutcome |-> "none",    \* "returned", "threw"
     surfaced |-> <<>>,            \* statuses handed to the callback
     errors |-> <<>>,              \* codes handed to ErrorHandler.handle
     notified |-> <<>>,            \* listeners called, in call order
     reentrant |-> <<>>,           \* what navigate calls made by listeners saw
     exit |-> "none",              \* the return (or throw) that ended the run
     lockAfter |-> FALSE]          \* Router.navigating when the run ended

\* The run c returns (or its promise rejects) on the path named by exit.
finish(w, c, exit) ==
    [w EXCEPT !.cycles[c].pc = "done",
              !.cycles[c].exit = exit,
              !.cycles[c].lockAfter = w.Router.navigating]

\* callback({status})
callback(w, c, status) ==
    [w EXCEPT !.cycles[c].surfaced = Append(@, status)]

\* error that logs the code and leaves the lock as it is.
errorKeepsLock(w, c, errorCode) ==
    [w EXCEPT !.cycles[c].errors = Append(@, errorCode)]

\* error(errorCode): ErrorHandler.handle logs the code; the lock is released.
error(w, c, errorCode) ==
    [w EXCEPT !.cycles[c].errors = Append(@, errorCode),
              !.Router.navigating = FALSE]

\* setState(routeName, state)
setState(w, routeName, state) ==
    [w EXCEPT !.Router.routeStates = set(@, routeName, state)]

\* noRoute without the release of the lock.
noRouteKeepsLock(w, c) ==
    finish(callback(w, c, 404), c, "no-route")

\* The first exit of handle(): no route name was resolved.
noRoute(w, c) ==
    finish(callback([w EXCEPT !.Router.navigating = FALSE], c, 404),
           c, "no-route")

\* A pipeline that stops at the first middleware: only the head of the list is
\* called when the pipeline starts.
executeMiddlewaresOneByOne(w, c, middlewares, context) ==
    LET first == IF middlewares = <<>> THEN <<>> ELSE <<Head(middlewares)>>
    IN [w EXCEPT
          !.cycles[c].invoked =
              [i \in 1..Len(first) |->
                  [middleware |-> first[i], context |-> context]],
          !.cycles[c].settled = [i \in 1..Len(first) |-> "pending"]]

\* executeMiddlewares(middlewares, context) up to its await: middlewares.map
\* calls every middleware with the one context object before any of them has
\* settled; each call is pending until MiddlewareSettles.
executeMiddlewares(w, c, middlewares, context) ==
    [w EXCEPT
       !.cycles[c].stateWhenInvoked = get(w.Router.routeStates, context.path),
       !.cycles[c].invoked =
           [i \in 1..Len(middlewares) |->
               [middleware |-> middlewares[i], context |-> context]],
       !.cycles[c].settled = [i \in 1..Len(middlewares) |-> "pending"]]

\* handle(callback) after the lookup of the route: route is the index of the
\* entry Router.routes[routeName] || Router.routes['/404'], 0 when there is
\* none; w has the run c and the new currentPath.
dispatch(w, c, query, route) ==
    IF route = 0
    THEN finish(error(callback(w, c, 404), c, 404), c, "no-handler")
    ELSE executeMiddlewares(
             [setState(w, query.routeName, "loading") EXCEPT
                 !.cycles[c].context =
                     [path |-> query.routeName,
                      query |-> getCurrentQuery(w.Router),
                      params |-> query.params],
                 !.cycles[c].handler = w.Router.routes[route].handler,
                 !.cycles[c].middlewares = w.Router.routes[route].middlewares,
                 !.cycles[c].pc = "middlewares"],
             c,
             w.Router.routes[route].middlewares,
             [path |-> query.routeName,
              query |-> getCurrentQuery(w.Router),
              params |-> query.params])

\* handle(callback) after getParsedQuery() returned query, as the run c of w.
handleQuery(w, c, query) ==
    IF query.routeName = NULL
    THEN noRoute(w, c)
    ELSE dispatch([w EXCEPT !.Router.currentPath = query.routeName,
                            !.cycles[c].routeName = query.routeName],
                  c, query,
                  IF routeIndex(w.Router.routes, query.routeName) # 0
                  THEN routeIndex(w.Router.routes, query.routeName)
                  ELSE routeIndex(w.Router.routes, "/404"))

\* handle(callback), from its entry to its first await (or to its return when
\* it returns before awaiting anything).
handle(w, origin) ==
    handleQuery([w EXCEPT !.cycles =
                    Append(@, [newCycle(origin) EXCEPT
                                  !.queryRoute =
                                      get(w.Router.currentQuery, "route")])],
                Len(w.cycles) + 1,
                getParsedQuery(w.Router))

\* A wrapper without the try/catch: only a falsy return value blocks.
middlewareResultUncaught(outcome) == outcome # "falsy"

\* The value the wrapper of executeMiddlewares gives for one middleware: what
\* the middleware returned, or false when it threw.
middlewareResult(outcome) == outcome = "truthy"

\* Middleware i of the run c settles.  A middleware that passes has put its
\* field (named after it) on the shared context before it returned.
settle(w, c, i, outcome) ==
    [w EXCEPT !.cycles[c].settled[i] = outcome,
              !.cycles[c].attached =
                  IF outcome = "truthy"
                  THEN @ \cup {w.cycles[c].middlewares[i]} ELSE @]

\* A combinator that resolves as soon as one of the promises has settled.
promiseRace(settled) ==
    settled = <<>> \/ \E i \in 1..Len(settled) : settled[i] # "pending"

\* Promise.all(promises) resolves when every promise has settled (the wrapper
\* of executeMiddlewares never rejects).
promiseAll(settled) ==
    \A i \in 1..Len(settled) : settled[i] # "pending"

\* handle() resumes after `await executeMiddlewares(...)`.
afterMiddlewares(w, c) ==
    LET cy == w.cycles[c]
        middlewareResults ==
            [i \in 1..Len(cy.settled) |-> middlewareResult(cy.settled[i])]
    IN IF ~ \A i \in 1..Len(middlewareResults) : middlewareResults[i]
       THEN finish(error(w, c, 400), c, "rejected")
       ELSE [w EXCEPT !.cycles[c].pc = "handler",
                      !.cycles[c].handlerSaw = cy.attached,
                      !.cycles[c].handlerCalls = @ + 1]

\* A merge in which the parameters embedded in the path win over the query
\* object: { ...query, ...pathQuery }.
mergedQueryOfPathWins(path, query) ==
    set(spread(query, fromEntries(searchParams(path))), "route", pathname(path))

\* A merge that stamps the route only when the merged object has none yet:
\* a route key of the path or of the query object survives.
mergedQueryOfRouteKept(path, query) ==
    IF has(spread(fromEntries(searchParams(path)), query), "route")
    THEN spread(fromEntries(searchParams(path)), query)
    ELSE set(spread(fromEntries(searchParams(path)), query),
             "route", pathname(path))

\* The canonical query string navigate(path, query) computes (319-331).
mergedQueryOf(path, query) ==
    set(spread(fromEntries(searchParams(path)), query), "route", pathname(path))

queryStringOf(path, query) == toString(mergedQueryOf(path, query))

\* replaceState in the place of pushState: the current entry is overwritten.
replaceState(w, queryString) ==
    [w EXCEPT !.window.entries[w.window.pos] = <<"?">> \o queryString,
              !.window.search = <<"?">> \o queryString]

\* window.history.pushState({}, "", fullUrl): the entries after the current
\* one are dropped and the new entry becomes the current one.
pushState(w, queryString) ==
    [w EXCEPT !.window.entries =
                  Append(SubSeq(@, 1, w.window.pos), <<"?">> \o queryString),
              !.window.pos = @ + 1,
              !.window.search = <<"?">> \o queryString,
              !.window.pushes = @ + 1]

\* An accepted navigation that keeps only the latest entry of the history.
acceptKeepsLatest(w, mergedQuery) ==
    LET w1 == [w EXCEPT !.Router.navigating = TRUE,
                        !.Router.currentQuery = mergedQuery]
        w2 == pushState(w1, toString(mergedQuery))
        w3 == [w2 EXCEPT !.Router.history = <<[query |-> mergedQuery]>>]
    IN handle(w3, "navigate")

\* An accepted navigation that pushes the new location and dispatches without
\* assigning Router.currentQuery.
acceptKeepsCurrentQuery(w, mergedQuery) ==
    handle([pushState([w EXCEPT !.Router.navigating = TRUE],
                      toString(mergedQuery))
               EXCEPT !.Router.history = Append(@, [query |-> mergedQuery])],
           "navigate")

\* The body of `if (Router.currentQuery.toString() !== queryString)`: the
\* navigation is accepted.
accept(w, mergedQuery) ==
    LET w1 == [w EXCEPT !.Router.navigating = TRUE,
                        !.Router.currentQuery = mergedQuery]
        w2 == pushState(w1, toString(mergedQuery))
        w3 == [w2 EXCEPT !.Router.history = Append(@, [query |-> mergedQuery])]
    IN handle(w3, "navigate")

\* navigate that records the navigation in the history before it looks at
\* the lock, and only then drops it.
navigateRecordsFirst(w, path, query, blank) ==
    IF w.Router.navigating
    THEN [w EXCEPT !.Router.history =
                       Append(@, [query |-> mergedQueryOf(path, query)])]
    ELSE IF blank THEN w
    ELSE IF toString(w.Router.currentQuery) # queryStringOf(path, query)
    THEN accept(w, mergedQueryOf(path, query))
    ELSE w

\* navigate without the comparison against the current query.
navigateAlways(w, path, query, blank) ==
    IF w.Router.navigating \/ blank THEN w
    ELSE accept(w, mergedQueryOf(path, query))

\* navigate(path, query, _blank)
navigate(w, path, query, blank) ==
    IF w.Router.navigating THEN w
    ELSE LET mergedQuery == mergedQueryOf(path, query)
             queryString == toString(mergedQuery)
         IN IF blank THEN w
            ELSE IF toString(w.Router.currentQuery) # queryString
            THEN accept(w, mergedQuery)
            ELSE w

\* What a listener does when it is called: the listener named "boom" throws,
\* every other one returns.
listenerThrows(listener) == listener = "boom"

\* The listeners forEach calls before an exception (if any) ends the loop:
\* all of them, or those up to and including the first that throws.
called(listeners) ==
    IF \E i \in 1..Len(listeners) : listenerThrows(listeners[i])
    THEN SubSeq(listeners, 1,
                CHOOSE i \in 1..Len(listeners) :
                    /\ listenerThrows(listeners[i])
                    /\ \A j \in 1..(i - 1) : ~listenerThrows(listeners[j]))
    ELSE listeners

\* A notification that walks the list from its end.
notifyListenersBackwards(w, c) ==
    LET listeners == called(w.Router.listeners)
    IN [w EXCEPT !.cycles[c].notified =
           @ \o [i \in 1..Len(listeners) |-> listeners[Len(listeners) + 1 - i]]]

\* What a listener does besides returning or throwing: the listener named
\* "nav" calls navigate(ListenerTarget, ListenerQuery) from inside the callback.
listenerNavigates(listener) == listener = "nav"
ListenerTarget == <<"/home">>
ListenerQuery == <<<<"from", "listener">>>>

\* callback(context) for each listener of the list in turn, on behalf of the
\* run c: the call is recorded, and a listener that navigates runs navigate()
\* synchronously in the state the notification finds.
RECURSIVE callListeners(_, _, _)
callListeners(w, c, listeners) ==
    IF listeners = <<>> THEN w
    ELSE LET listener == Head(listeners)
             w1 == [w EXCEPT !.cycles[c].notified = Append(@, listener)]
             saw == IF w1.Router.navigating THEN "navigate: lock held"
                    ELSE IF toString(w1.Router.currentQuery) =
                               queryStringOf(ListenerTarget, ListenerQuery)
                    THEN "navigate: same query"
                    ELSE "navigate: new query"
             w2 == IF listenerNavigates(listener)
                   THEN [navigate(w1, ListenerTarget, ListenerQuery, FALSE)
                            EXCEPT !.cycles[c].reentrant = Append(@, saw)]
                   ELSE w1
         IN callListeners(w2, c, Tail(listeners))

\* notifyListeners(context), called by the run c.
notifyListeners(w, c) == callListeners(w, c, called(w.Router.listeners))

\* onChange(listener): a function is appended to the list, anything else is
\* ignored.
onChange(w, listener) ==
    IF listener.type = "function"
    THEN [w EXCEPT !.Router.listeners = Append(@, listener.id)]
    ELSE w

\* clearListeners()
clearListeners(w) == [w EXCEPT !.Router.listeners = <<>>]

\* The tail of handle(): notifyListeners, release of the lock, callback 200.
completeCycle(w, c) ==
    LET w1 == notifyListeners(w, c)
        w2 == [w1 EXCEPT !.Router.navigating = FALSE]
    IN IF \E i \in 1..Len(w.Router.listeners) :
             listenerThrows(w.Router.listeners[i])
       THEN finish(w1, c, "listener-threw")
       ELSE finish(callback(w2, c, 200), c, "completed")

\* handle() resumes after `await executeHandler(...)` returned normally.
afterHandler(w, c) ==
    completeCycle(
        setState([w EXCEPT !.cycles[c].handlerOutcome = "returned"],
                 w.cycles[c].routeName, "success"),
        c)

\* A catch block that marks the route as successful.
catchBlockMarksSuccess(w, c, thrown) ==
    IF thrown = "callable"
    THEN completeCycle(
             setState([w EXCEPT !.cycles[c].handlerOutcome = "threw"],
                      w.cycles[c].routeName, "success"),
             c)
    ELSE finish(setState([w EXCEPT !.cycles[c].handlerOutcome = "threw"],
                         w.cycles[c].routeName, "success"),
                c, "uncaught")

\* The catch block of handle(): inside it `error` is the caught value, not the
\* module's error function, and `error(500)` calls that value.  A value that
\* cannot be called makes the call throw a TypeError out of handle(); a value
\* that can be called returns and handle() goes on after the try statement.
catchBlock(w, c, thrown) ==
    LET w1 == [w EXCEPT !.cycles[c].handlerOutcome = "threw"]
    IN IF thrown = "callable"
       THEN completeCycle(w1, c)
       ELSE finish(w1, c, "uncaught")

\* A refresh that lets a route given in the parameters choose the target.
refreshFollowsParams(w, given, newParams) ==
    LET params == IF given THEN newParams ELSE getCurrentQuery(w.Router)
        target == IF has(params, "route") THEN get(params, "route")
                  ELSE w.Router.currentPath
    IN navigate(w, <<target>>, params, FALSE)

\* refresh(newParams = getCurrentQuery()): given says whether the caller
\* passed an argument.  The route of the parameters is overwritten with
\* Router.currentPath and navigate(Router.currentPath, newParams) is called.
refresh(w, given, newParams) ==
    LET params == IF given THEN newParams ELSE getCurrentQuery(w.Router)
        forced == set(params, "route", w.Router.currentPath)
    IN navigate(w, <<w.Router.currentPath>>, forced, FALSE)

\* A popstate listener that dispatches without reading the location again.
popstateKeepsQuery(w, k) ==
    LET w1 == [w EXCEPT !.window.pos = k,
                        !.window.search = w.window.entries[k]]
    IN handle(w1, "popstate")

\* The popstate listener of init(), after the browser moved to entry k.
popstate(w, k) ==
    LET w1 == [w EXCEPT !.window.pos = k,
                        !.window.search = w.window.entries[k]]
        w2 == [w1 EXCEPT !.Router.currentQuery =
                             URLSearchParams(w1.window.search)]
    IN handle(w2, "popstate")

(***************************************************************************)
(* Inputs and the initial state                                            *)
(***************************************************************************)

\* Navigation targets: a path, optionally followed by "?" and a query.
Targets == {<<"/home">>, <<"/about/42">>, <<"/nowhere">>}

\* The query objects given to navigate.
Queries == {<<>>, <<<<"id", "7">>>>}

\* The route tables the application registers at startup (registration is
\* done before the first navigation).
BaseRoutes ==
    register(register(<<>>, "/home", "homeHandler", <<>>),
             "/about/:id", "aboutHandler", <<"auth", "audit">>)

StartupRoutes == {BaseRoutes}

\* The query strings the page can be loaded with.
InitialSearches == {<<"?", "route", "=", "/home">>}

World == [Router |-> Router, window |-> window, cycles |-> cycles]

\* The event names and the keys the model uses.
Events == {"ready", "other"}
StateKeys == {"user", "theme"}

\* The Emitter and the state manager as their modules create them: no
\* listener, no state, no subscriber.
\* The values STATES.FETCHING may have (the module ../utils/states.js decides):
\* a non-empty string, or a value that is falsy.
Placeholders == {<<"fetching">>, <<"undefined">>}

\* The Template object when the module has been loaded: an empty cache, no
\* call of render or preload made yet.
TemplateLoaded(placeholder) ==
    [caches |-> <<>>, calls |-> <<>>, FETCHING |-> placeholder]

ModulesLoaded ==
    /\ Template = TemplateLoaded(<<"fetching">>)
    /\ Emitter = [events |-> [event \in Events |-> <<>>],
                  invoked |-> <<>>,
                  fired |-> {}]
    /\ stateManager = [state |-> <<>>,
                       subscribers |-> [key \in StateKeys |-> <<>>],
                       delivered |-> <<>>]

Becomes(w) ==
    /\ Router' = w.Router
    /\ window' = w.window
    /\ cycles' = w.cycles
    /\ UNCHANGED <<Emitter, stateManager, Template>>

\* What the observer records of a call of navigate: the first of the tests of
\* navigate() that the state before the call satisfies.
Observed(path, query, blank) ==
    IF Router.navigating THEN "navigate: lock held"
    ELSE IF blank THEN "navigate: new context"
    ELSE IF toString(Router.currentQuery) = queryStringOf(path, query)
    THEN "navigate: same query"
    ELSE "navigate: new query"

Init ==
    /\ \E routes \in StartupRoutes, search \in InitialSearches :
          /\ Router = [currentPath |-> NULL,
                       currentQuery |-> URLSearchParams(search),
                       listeners |-> <<"l1", "l2">>,
                       history |-> <<>>,
                       routes |-> routes,
                       routeStates |-> <<>>,
                       navigating |-> FALSE]
          /\ window = [search |-> search, entries |-> <<search>>, pos |-> 1,
                       pushes |-> 0]
    /\ cycles = <<>>
    /\ lastCall = "load"
    /\ ModulesLoaded

(***************************************************************************)
(* Actions                                                                 *)
(***************************************************************************)

\* A call of navigate(path, query, _blank).
Navigate(path, query, blank) ==
    LET w == navigate(World, path, query, blank)
    IN /\ Len(w.cycles) <= MaxCycles
       /\ Becomes(w)
       /\ lastCall' = Observed(path, query, blank)

\* The user goes back or forward to entry k of the session history and the
\* browser fires popstate.
Popstate(k) ==
    /\ Len(cycles) < MaxCycles
    /\ k # window.pos
    /\ Becomes(popstate(World, k))
    /\ lastCall' = "popstate"

\* A call of refresh(newParams), or of refresh() when given is false.
Refresh(given, newParams) ==
    LET w == refresh(World, given, newParams)
        params == IF given THEN newParams ELSE getCurrentQuery(Router)
    IN /\ Len(w.cycles) <= MaxCycles
       /\ Becomes(w)
       /\ lastCall' =
             (IF Router.navigating THEN "refresh: lock held"
              ELSE IF toString(Router.currentQuery) =
                         queryStringOf(<<Router.currentPath>>,
                                       set(params, "route", Router.currentPath))
              THEN "refresh: same query"
              ELSE "refresh: new query")

\* A call of register(routeName, handler, middlewares): it throws before the
\* table is touched, or stores the entry.
Register(routeName, handler, middlewares) ==
    /\ IF registerThrows(handler, middlewares)
       THEN /\ Router' = Router
            /\ lastCall' = "register: threw"
       ELSE /\ Router' = [Router EXCEPT !.routes =
                             register(@, routeName, handler.id,
                                      storedMiddlewares(middlewares))]
            /\ lastCall' = "register: stored"
    /\ UNCHANGED <<window, cycles, Emitter, stateManager, Template>>

\* A call of onChange(listener).
OnChange(listener) ==
    /\ Len(Router.listeners) < MaxListeners
    /\ Becomes(onChange(World, listener))
    /\ lastCall' = (IF listener.type = "function" THEN "onChange: subscribed"
                    ELSE "onChange: ignored")

\* A call of clearListeners().
ClearListeners ==
    /\ Becomes(clearListeners(World))
    /\ lastCall' = "clearListeners"

\* A pending middleware of a running cycle settles.
MiddlewareSettles(c, i, outcome) ==
    /\ cycles[c].pc = "middlewares"
    /\ cycles[c].settled[i] = "pending"
    /\ Becomes(settle(World, c, i, outcome))
    /\ lastCall' = "resume"

\* Promise.all has resolved and handle() goes on after its first await.
PipelineResumes(c) ==
    /\ cycles[c].pc = "middlewares"
    /\ promiseAll(cycles[c].settled)
    /\ Becomes(afterMiddlewares(World, c))
    /\ lastCall' = "resume"

\* The handler's promise resolves and handle() goes on after its second await.
HandlerReturns(c) ==
    /\ cycles[c].pc = "handler"
    /\ Becomes(afterHandler(World, c))
    /\ lastCall' = "resume"

\* The handler throws (or its promise rejects) and the catch block runs.
HandlerThrows(c, thrown) ==
    /\ cycles[c].pc = "handler"
    /\ Becomes(catchBlock(World, c, thrown))
    /\ lastCall' = "resume"

Next ==
    \/ \E path \in Targets, query \in Queries, blank \in BOOLEAN :
          Navigate(path, query, blank)
    \/ \E k \in 1..Len(window.entries) : Popstate(k)
    \/ \E c \in 1..Len(cycles) :
          \E i \in 1..Len(cycles[c].settled), outcome \in MiddlewareOutcomes :
             MiddlewareSettles(c, i, outcome)
    \/ \E c \in 1..Len(cycles) : PipelineResumes(c)
    \/ \E c \in 1..Len(cycles) : HandlerReturns(c)
    \/ \E c \in 1..Len(cycles), thrown \in ThrownValues : HandlerThrows(c, thrown)

Spec == Init /\ [][Next]_vars

(***************************************************************************)
(* The dispatch cycle with a fallback route '/404' in the table            *)
(***************************************************************************)

FallbackRoutes == register(BaseRoutes, "/404", "notFoundHandler", <<>>)

InitFallback ==
    /\ \E search \in InitialSearches :
          /\ Router = [currentPath |-> NULL,
                       currentQuery |-> URLSearchParams(search),
                       listeners |-> <<"l1", "l2">>,
                       history |-> <<>>,
                       routes |-> FallbackRoutes,
                       routeStates |-> <<>>,
                       navigating |-> FALSE]
          /\ window = [search |-> search, entries |-> <<search>>, pos |-> 1,
                       pushes |-> 0]
    /\ cycles = <<>>
    /\ lastCall = "load"
    /\ ModulesLoaded

SpecFallback == InitFallback /\ [][Next]_vars

(***************************************************************************)
(* The public API: navigate with embedded queries, refresh, register,      *)
(* popstate and the continuations of the cycles they start                 *)
(***************************************************************************)

ApiTargets == {<<"/home">>, <<"/about/42", "?", "id", "=", "1">>}
ApiQueries == {<<>>, <<<<"id", "7">>>>, <<<<"route", "/nowhere">>>>}
ApiParams == {<<<<"tab", "b">>>>, <<<<"route", "/nowhere">>, <<"tab", "b">>>>}
ApiRoutes ==
    register(register(<<>>, "/home", "homeHandler", <<>>),
             "/about/:id", "aboutHandler", <<>>)

InitApi ==
    /\ \E search \in InitialSearches :
          /\ Router = [currentPath |-> NULL,
                       currentQuery |-> URLSearchParams(search),
                       listeners |-> <<"l1">>,
                       history |-> <<>>,
                       routes |-> ApiRoutes,
                       routeStates |-> <<>>,
                       navigating |-> FALSE]
          /\ window = [search |-> search, entries |-> <<search>>, pos |-> 1,
                       pushes |-> 0]
    /\ cycles = <<>>
    /\ lastCall = "load"
    /\ ModulesLoaded

NextApi ==
    \/ \E path \in ApiTargets, query \in ApiQueries : Navigate(path, query, FALSE)
    \/ \E given \in BOOLEAN, newParams \in ApiParams : Refresh(given, newParams)
    \/ \E k \in 1..Len(window.entries) : Popstate(k)
    \/ \E handler \in {Fn("h2"), Str("not a function")} :
          Register("/home", handler, Arr(<<>>))
    \/ \E c \in 1..Len(cycles) : PipelineResumes(c)
    \/ \E c \in 1..Len(cycles) : HandlerReturns(c)
    \/ \E c \in 1..Len(cycles) : HandlerThrows(c, "error")

SpecApi == InitApi /\ [][NextApi]_vars

(***************************************************************************)
(* Query merge: navigate() with targets that carry a query and with query  *)
(* objects whose keys come in different orders                             *)
(***************************************************************************)

MergeTargets ==
    {<<"/home">>,
     <<"/home", "?", "tab", "=", "a">>,
     <<"/about/42", "?", "route", "=", "/nowhere", "&", "id", "=", "1">>}
MergeQueries ==
    {<<>>,
     <<<<"id", "7">>>>,
     <<<<"tab", "a">>, <<"id", "7">>>>,
     <<<<"id", "7">>, <<"tab", "a">>>>,
     <<<<"route", "/nowhere">>, <<"id", "7">>>>}

NextMerge ==
    \/ \E path \in MergeTargets, query \in MergeQueries :
          Navigate(path, query, FALSE)
    \/ \E c \in 1..Len(cycles) : PipelineResumes(c)
    \/ \E c \in 1..Len(cycles) : HandlerReturns(c)

SpecMerge == InitApi /\ [][NextMerge]_vars

(***************************************************************************)
(* Listeners: onChange and clearListeners between dispatch cycles          *)
(***************************************************************************)

Callbacks == {Fn("l1"), Fn("boom"), Fn("nav"), Str("not a function")}

InitListeners ==
    /\ \E search \in InitialSearches :
          /\ Router = [currentPath |-> NULL,
                       currentQuery |-> URLSearchParams(search),
                       listeners |-> <<>>,
                       history |-> <<>>,
                       routes |-> ApiRoutes,
                       routeStates |-> <<>>,
                       navigating |-> FALSE]
          /\ window = [search |-> search, entries |-> <<search>>, pos |-> 1,
                       pushes |-> 0]
    /\ cycles = <<>>
    /\ lastCall = "load"
    /\ ModulesLoaded

NextListeners ==
    \/ \E listener \in Callbacks : OnChange(listener)
    \/ ClearListeners
    \/ \E query \in Queries : Navigate(<<"/home">>, query, FALSE)
    \/ \E c \in 1..Len(cycles) : PipelineResumes(c)
    \/ \E c \in 1..Len(cycles) : HandlerReturns(c)
    \/ \E c \in 1..Len(cycles) : HandlerThrows(c, "error")

SpecListeners == InitListeners /\ [][NextListeners]_vars

(***************************************************************************)
(* Registration: register() called in any order with any arguments         *)
(***************************************************************************)

RegistryPatterns == {"/home", "/about/:id", "/about/:slug"}
HandlerArguments == {Fn("h1"), Fn("h2"), Str("not a function")}
MiddlewareArguments ==
    {Arr(<<>>), Arr(<<Fn("auth")>>), Fn("auth"), Arr(<<Fn("auth"), Fn("audit")>>),
     Str("auth"), Arr(<<Fn("auth"), Str("audit")>>)}

\* The router before any route is registered.
InitRegistry ==
    /\ Router = [currentPath |-> NULL,
                 currentQuery |-> <<>>,
                 listeners |-> <<>>,
                 history |-> <<>>,
                 routes |-> <<>>,
                 routeStates |-> <<>>,
                 navigating |-> FALSE]
    /\ window = [search |-> <<>>, entries |-> <<<<>>>>, pos |-> 1, pushes |-> 0]
    /\ cycles = <<>>
    /\ lastCall = "load"
    /\ ModulesLoaded

NextRegistry ==
    \E routeName \in RegistryPatterns, handler \in HandlerArguments,
       middlewares \in MiddlewareArguments :
          Register(routeName, handler, middlewares)

SpecRegistry == InitRegistry /\ [][NextRegistry]_vars

\* Registration of a static pattern and of dynamic patterns that accept it,
\* in any order.
OverlappingPatterns == {"/about/me", "/about/:id", "/about/:slug"}

NextOverlap ==
    \E routeName \in OverlappingPatterns, handler \in HandlerArguments,
       middlewares \in MiddlewareArguments :
          Register(routeName, handler, middlewares)

SpecOverlap == InitRegistry /\ [][NextOverlap]_vars

(***************************************************************************)
(* Matching: dynamic patterns registered, then names dispatched            *)
(***************************************************************************)

MatcherPatterns == {"/about/:id", "/a.b/:id"}
MatcherNames ==
    {"/about/42", "/about", "/about/", "/about/42/extra",
     "/a.b/42", "/axb/42", "/a/b/42", "/about/:id"}

NextMatcher ==
    \/ \E routeName \in MatcherPatterns :
          Register(routeName, Fn("h1"), Arr(<<>>))
    \/ \E routeName \in MatcherNames : Navigate(<<routeName>>, <<>>, FALSE)
    \/ \E c \in 1..Len(cycles) : PipelineResumes(c)
    \/ \E c \in 1..Len(cycles) : HandlerReturns(c)

SpecMatcher == InitRegistry /\ [][NextMatcher]_vars

(***************************************************************************)
(* The Emitter (device.js 444-492)                                         *)
(***************************************************************************)

\* Bound: the number of once() registrations a behaviour may make.
MaxOnce == 2

\* Bound: the number of listeners registered for one event at the same time.
MaxEmitterListeners == 2

\* The listener functions the application registers: "plain" returns, "reemit"
\* calls emit() for the event it is handling the first time it is called.
EmitterListeners == {"plain", "reemit"}
listenerReemits(listener) == listener = "reemit"

\* An element of Emitter.events[event]: the listener itself (wrapper 0), or
\* the onceWrapper number `wrapper` that once() created around the listener.
Registration(wrapper, listener) == [wrapper |-> wrapper, listener |-> listener]

\* Emitter.events[event].filter(l => l !== fn)
filterOut(list, fn) == SelectSeq(list, LAMBDA l : l # fn)

\* off(event, listener)
off(em, event, fn) ==
    [em EXCEPT !.events[event] = filterOut(@, fn)]

\* on(event, listener)
on(em, event, fn) ==
    [em EXCEPT !.events[event] = Append(@, fn)]

\* once(event, listener): a new onceWrapper is created and registered.
once(em, event, listener) ==
    LET wrapper == Len(em.invoked) + 1
    IN on([em EXCEPT !.invoked = Append(@, 0)], event,
          Registration(wrapper, listener))

RECURSIVE emit(_, _)
RECURSIVE forEachListener(_, _, _)

\* The body of a listener function, called for event.
runListener(em, event, listener) ==
    IF listenerReemits(listener) /\ listener \notin em.fired
    THEN emit([em EXCEPT !.fired = @ \cup {listener}], event)
    ELSE em

\* One element of the list is called: a plain registration runs the listener;
\* a onceWrapper runs the listener and then removes itself with off().
callRegistration(em, event, fn) ==
    IF fn.wrapper = 0
    THEN runListener(em, event, fn.listener)
    ELSE off(runListener([em EXCEPT !.invoked[fn.wrapper] = @ + 1],
                         event, fn.listener),
             event, fn)

\* Emitter.events[event].forEach(listener => listener(...args)): the array the
\* loop walks is the one emit() found; off() replaces it by a filtered copy,
\* so the loop still reaches every element it started with.
forEachListener(em, event, list) ==
    IF list = <<>> THEN em
    ELSE forEachListener(callRegistration(em, event, Head(list)), event, Tail(list))

\* emit(event, ...args)
emit(em, event) == forEachListener(em, event, em.events[event])

RouterIdle ==
    /\ Router = [currentPath |-> NULL,
                 currentQuery |-> <<>>,
                 listeners |-> <<>>,
                 history |-> <<>>,
                 routes |-> <<>>,
                 routeStates |-> <<>>,
                 navigating |-> FALSE]
    /\ window = [search |-> <<>>, entries |-> <<<<>>>>, pos |-> 1, pushes |-> 0]
    /\ cycles = <<>>

InitEmitter ==
    /\ RouterIdle
    /\ lastCall = "load"
    /\ ModulesLoaded

\* A call of once(event, listener).
Once(event, listener) ==
    /\ Len(Emitter.invoked) < MaxOnce
    /\ Len(Emitter.events[event]) < MaxEmitterListeners
    /\ Emitter' = once(Emitter, event, listener)
    /\ lastCall' = "once"
    /\ UNCHANGED <<Router, window, cycles, stateManager, Template>>

\* A call of on(event, listener).
On(event, listener) ==
    /\ Len(Emitter.events[event]) < MaxEmitterListeners
    /\ Emitter' = on(Emitter, event, Registration(0, listener))
    /\ lastCall' = "on"
    /\ UNCHANGED <<Router, window, cycles, stateManager, Template>>

\* A call of off(event, listener).
Off(event, listener) ==
    /\ Emitter' = off(Emitter, event, Registration(0, listener))
    /\ lastCall' = "off"
    /\ UNCHANGED <<Router, window, cycles, stateManager, Template>>

\* A call of emit(event) made by the application (not by a listener).
Emit(event) ==
    /\ Emitter' = emit(Emitter, event)
    /\ lastCall' = "emit"
    /\ UNCHANGED <<Router, window, cycles, stateManager, Template>>

NextEmitter ==
    \/ \E event \in Events, listener \in EmitterListeners : Once(event, listener)
    \/ \E event \in Events, listener \in EmitterListeners : On(event, listener)
    \/ \E event \in Events, listener \in EmitterListeners : Off(event, listener)
    \/ \E event \in Events : Emit(event)

SpecEmitter == InitEmitter /\ [][NextEmitter]_vars

(***************************************************************************)
(* The state manager (state.js)                                            *)
(***************************************************************************)

\* Bound: the number of callbacks subscribed to one key.
MaxSubscribers == 2

StateValues == {"v1", "v2"}
StateCallbacks == {"s1", "s2"}
KeyArguments == {<<"user">>, <<"theme">>, <<"user", "theme">>}

\* notify(key), the exported function: every callback subscribed to the key
\* is called with (key, stateManager.state[key]).
notify(sm, key) ==
    [sm EXCEPT !.delivered =
        [i \in 1..Len(sm.subscribers[key]) |->
            <<sm.subscribers[key][i], key, get(sm.state, key)>>]]

\* `stateManager.notify(key)` in set(): the stateManager object has the
\* properties state, subscribers, actions and action only, so the property
\* notify is undefined and calling it throws a TypeError.
stateManagerHasNotify == FALSE

\* set(key, value, notify = true): the value is stored; then, when notify is
\* truthy, stateManager.notify(key) is called.
stateSet(sm, key, value, notifyFlag) ==
    LET stored == [sm EXCEPT !.state = set(@, key, value), !.delivered = <<>>]
    IN IF notifyFlag /\ stateManagerHasNotify THEN notify(stored, key)
       ELSE stored

\* Whether that call of set() ends by an exception.
stateSetThrows(notifyFlag) == notifyFlag /\ ~stateManagerHasNotify

\* subscribe(keys, callback): the callback is pushed onto the list of every
\* key of keys.
RECURSIVE subscribe(_, _, _)
subscribe(sm, keys, subscriber) ==
    IF keys = <<>> THEN sm
    ELSE subscribe([sm EXCEPT !.subscribers[Head(keys)] = Append(@, subscriber)],
                   Tail(keys), subscriber)

InitStateManager ==
    /\ RouterIdle
    /\ lastCall = "load"
    /\ ModulesLoaded

\* A call of set(key, value, notify).
Set(key, value, notifyFlag) ==
    /\ stateManager' = stateSet(stateManager, key, value, notifyFlag)
    /\ lastCall' = (IF stateSetThrows(notifyFlag) THEN "set: threw"
                    ELSE "set: returned")
    /\ UNCHANGED <<Router, window, cycles, Emitter, Template>>

\* A call of subscribe(keys, callback).
Subscribe(keys, subscriber) ==
    /\ \A i \in 1..Len(keys) :
          Len(stateManager.subscribers[keys[i]]) < MaxSubscribers
    /\ stateManager' =
          [subscribe(stateManager, keys, subscriber) EXCEPT !.delivered = <<>>]
    /\ lastCall' = "subscribe"
    /\ UNCHANGED <<Router, window, cycles, Emitter, Template>>

\* A call of the exported notify(key).
Notify(key) ==
    /\ stateManager' = notify(stateManager, key)
    /\ lastCall' = "notify"
    /\ UNCHANGED <<Router, window, cycles, Emitter, Template>>

NextStateManager ==
    \/ \E key \in StateKeys, value \in StateValues, notifyFlag \in BOOLEAN :
          Set(key, value, notifyFlag)
    \/ \E keys \in KeyArguments, subscriber \in StateCallbacks :
          Subscribe(keys, subscriber)
    \/ \E key \in StateKeys : Notify(key)

SpecStateManager == InitStateManager /\ [][NextStateManager]_vars

(***************************************************************************)
(* The template cache (template.js 1-133)                                  *)
(***************************************************************************)

\* Bound: the number of render and preload calls of a behaviour.
MaxCalls == 2

TemplatePaths == {"/a", "/b"}

\* response.text() of the template of a path, and the string cache.add is
\* called with.
Fetched(path) == <<"html", path>>
AddedTexts == {<<"custom">>}

\* Whether a value of the cache passes `if (value)`: the empty string and
\* undefined do not.
truthy(value) == value # <<>> /\ value # <<"undefined">>

\* Map.prototype.delete
mapDelete(o, k) == filterPairs(o, k)

\* get(url), when its fetch has settled: the text of the response, or '' when
\* the fetch failed (the catch block of get returns '', get never rejects).
templateGet(path, ok) == IF ok THEN Fetched(path) ELSE <<>>

\* preload([path]) after `await get(fullPath)` returned template: a truthy
\* template is stored; nothing else is done (get never rejects, so the catch
\* block with Template.caches.delete is not reached).
preloadSettled(T, path, template) ==
    IF truthy(template) THEN [T EXCEPT !.caches = set(@, path, template)]
    ELSE T

\* A call of render or preload: its position, and what render handed to
\* Template.Engine.render (at most one source).
newCall(kind, path) ==
    [kind |-> kind, path |-> path, pc |-> "start", fetch |-> "none",
     engine |-> <<>>]

\* preload([path]) from its entry to `await get(fullPath)`, or to its return
\* when the cache has an entry for path; the call is recorded as `call`.
preload(T, path, call) ==
    IF ~has(T.caches, path)
    THEN [T EXCEPT !.caches = set(@, path, T.FETCHING),
                   !.calls = Append(@, [call EXCEPT !.pc = "get"])]
    ELSE [T EXCEPT !.calls = Append(@, [call EXCEPT !.pc = "preloaded"])]

\* render(path, data) after `await preload([path])`.
afterPreload(T, i) ==
    IF ~has(T.caches, T.calls[i].path)
       \/ ~truthy(get(T.caches, T.calls[i].path))
    THEN [T EXCEPT !.calls[i].pc = "not found"]
    ELSE [T EXCEPT !.calls[i].pc = "rendered",
                   !.calls[i].engine = <<get(T.caches, T.calls[i].path)>>]

InitTemplate ==
    /\ RouterIdle
    /\ lastCall = "load"
    /\ Emitter = [events |-> [event \in Events |-> <<>>],
                  invoked |-> <<>>,
                  fired |-> {}]
    /\ stateManager = [state |-> <<>>,
                       subscribers |-> [key \in StateKeys |-> <<>>],
                       delivered |-> <<>>]
    /\ \E placeholder \in Placeholders : Template = TemplateLoaded(placeholder)

\* A call of render(path, data), up to its `await preload([path])`.
Render(path) ==
    /\ Len(Template.calls) < MaxCalls
    /\ Template' = preload(Template, path, newCall("render", path))
    /\ lastCall' = "render"
    /\ UNCHANGED <<Router, window, cycles, Emitter, stateManager>>

\* A call of preload([path]), up to its `await get(fullPath)`.
Preload(path) ==
    /\ Len(Template.calls) < MaxCalls
    /\ Template' = preload(Template, path, newCall("preload", path))
    /\ lastCall' = "preload"
    /\ UNCHANGED <<Router, window, cycles, Emitter, stateManager>>

\* The fetch of the call i settles and preload goes on after its await.
GetSettles(i, ok) ==
    /\ Template.calls[i].pc = "get"
    /\ Template' =
          [preloadSettled(Template, Template.calls[i].path,
                          templateGet(Template.calls[i].path, ok))
              EXCEPT !.calls[i].pc = "preloaded",
                     !.calls[i].fetch = IF ok THEN "ok" ELSE "failed"]
    /\ lastCall' = "get settled"
    /\ UNCHANGED <<Router, window, cycles, Emitter, stateManager>>

\* The awaited preload of the call i has returned: render goes on (a call of
\* preload itself is over).
PreloadReturns(i) ==
    /\ Template.calls[i].pc = "preloaded"
    /\ Template' = IF Template.calls[i].kind = "render"
                   THEN afterPreload(Template, i)
                   ELSE [Template EXCEPT !.calls[i].pc = "done"]
    /\ lastCall' = "preload returned"
    /\ UNCHANGED <<Router, window, cycles, Emitter, stateManager>>

\* cache.add(path, template)
AddToCache(path, template) ==
    /\ Template' = [Template EXCEPT !.caches = set(@, path, template)]
    /\ lastCall' = "cache.add"
    /\ UNCHANGED <<Router, window, cycles, Emitter, stateManager>>

\* cache.delete(path)
DeleteFromCache(path) ==
    /\ Template' = [Template EXCEPT !.caches = mapDelete(@, path)]
    /\ lastCall' = "cache.delete"
    /\ UNCHANGED <<Router, window, cycles, Emitter, stateManager>>

NextTemplate ==
    \/ \E path \in TemplatePaths : Render(path)
    \/ \E path \in TemplatePaths : Preload(path)
    \/ \E i \in 1..Len(Template.calls), ok \in BOOLEAN : GetSettles(i, ok)
    \/ \E i \in 1..Len(Template.calls) : PreloadReturns(i)
    \/ \E path \in TemplatePaths, template \in AddedTexts :
          AddToCache(path, template)
    \/ \E path \in TemplatePaths : DeleteFromCache(path)

SpecTemplate == InitTemplate /\ [][NextTemplate]_vars

(***************************************************************************)
(* Properties                                                              *)
(***************************************************************************)

\* The "/"-separated path segments of the route names: what the claims about
\* matching speak of.
Segments(name) ==
    CASE name = "/home"      -> <<"home">>
      [] name = "/404"       -> <<"404">>
      [] name = "/nowhere"   -> <<"nowhere">>
      [] name = "/about/42"  -> <<"about", "42">>
      [] name = "/about/me"  -> <<"about", "me">>
      [] name = "/about/:id" -> <<"about", ":id">>
      [] name = "/about/:slug" -> <<"about", ":slug">>
      [] name = "/about"     -> <<"about">>
      [] name = "/about/"    -> <<"about", "">>
      [] name = "/about/42/extra" -> <<"about", "42", "extra">>
      [] name = "/a.b/:id"   -> <<"a.b", ":id">>
      [] name = "/a.b/42"    -> <<"a.b", "42">>
      [] name = "/axb/42"    -> <<"axb", "42">>
      [] name = "/a/b/42"    -> <<"a", "b", "42">>
      [] OTHER               -> <<name>>

\* A segment that is a :token.
IsToken(seg) == seg \in {":id", ":slug"}

\* The parameter a token names.
ParamName(seg) ==
    CASE seg = ":id"   -> "id"
      [] seg = ":slug" -> "slug"
      [] OTHER         -> seg

Cycles == 1..Len(cycles)

Done(c) == cycles[c].pc = "done"

\* The runs of handle() that have started and not yet returned.
InFlight == {c \in Cycles : ~Done(c)}

\* The run c returns (or throws) in this step.
Ends(c) ==
    /\ c \in 1..Len(cycles')
    /\ cycles'[c].pc = "done"
    /\ c \in Cycles => cycles[c].pc # "done"

\* The route name q is the key of no static entry and no dynamic pattern of
\* the table accepts it.
Unresolved(q) ==
    \A i \in 1..Len(Router.routes) :
        /\ Router.routes[i].key # q
        /\ ~(Router.routes[i].isDynamic /\ q # NULL
             /\ regexMatch(Router.routes[i].key, q))

\* The outcomes of a run that has ended.
NotFound(c) == Done(c) /\ Unresolved(cycles[c].queryRoute)
MiddlewareRejected(c) ==
    /\ Done(c)
    /\ \E i \in 1..Len(cycles[c].settled) : cycles[c].settled[i] \in {"falsy", "threw"}
HandlerFailed(c) == Done(c) /\ cycles[c].handlerOutcome = "threw"
Succeeded(c) == Done(c) /\ cycles[c].handlerOutcome = "returned"

\* C1: at most one dispatch cycle (one run of handle) is in flight at any
\* moment, in every interleaving of navigate calls, popstate events and the
\* continuations of running cycles.
C1_SingleFlight == Cardinality(InFlight) <= 1

\* C2: a dispatch cycle started by navigate whose handler threw has ended
\* with the navigation lock released.
C2_HandlerThrowReleasesLock ==
    \A c \in Cycles :
        (cycles[c].origin = "navigate" /\ HandlerFailed(c)) => ~cycles[c].lockAfter

\* C3: a call of navigate made while the lock is held changes nothing: not
\* the current query, the location, the history or the set of cycles.
C3_BusyNavigateHasNoEffect ==
    [][lastCall' = "navigate: lock held" => UNCHANGED <<Router, window, cycles>>]_vars

\* C3 witness: two calls of navigate, the second made while the first one's
\* cycle held the lock: one cycle, one history entry, one push.
C3_Witness ==
    /\ lastCall = "navigate: lock held"
    /\ Len(cycles) = 1 /\ Len(Router.history) = 1 /\ window.pushes = 1

\* C4: a call of navigate with the lock free whose canonical query string
\* equals the current one changes nothing, and the lock stays free.
C4_SameQueryIsNoOp ==
    [][lastCall' = "navigate: same query" =>
          /\ UNCHANGED <<Router, window, cycles>>
          /\ ~Router'.navigating]_vars

\* C4 witness: such a call was made after an accepted navigation.
C4_Witness ==
    /\ lastCall = "navigate: same query"
    /\ Len(Router.history) = 1

NavigateCycles == {c \in Cycles : cycles[c].origin = "navigate"}

\* The step is an accepted navigate: one push, one history entry holding the
\* merged query (the query pushed onto the location), one new cycle, and the
\* lock held unless that cycle has already ended.
AcceptedStep ==
    LET c == Len(cycles')
    IN /\ window'.pushes = window.pushes + 1
       /\ window'.entries[window'.pos] = window'.search
       /\ Len(Router'.history) = Len(Router.history) + 1
       /\ SubSeq(Router'.history, 1, Len(Router.history)) = Router.history
       /\ Router'.history[Len(Router'.history)].query = URLSearchParams(window'.search)
       /\ c = Len(cycles) + 1
       /\ cycles'[c].origin = "navigate"
       /\ cycles'[c].pc # "done" => Router'.navigating

\* C5: every accepted navigate (lock free, new canonical query) pushes one
\* entry onto the location, appends one history entry and starts one
\* dispatch cycle; the length of the history, the number of pushes and the
\* number of cycles started by navigate are always equal.
C5_AcceptedNavigateCounts ==
    /\ [](/\ Len(Router.history) = window.pushes
          /\ window.pushes = Cardinality(NavigateCycles))
    /\ [][lastCall' = "navigate: new query" => AcceptedStep]_vars

\* C5 witness: two navigations were accepted, the first of which failed.
C5_Witness ==
    /\ Len(Router.history) = 2
    /\ cycles[1].origin = "navigate" /\ MiddlewareRejected(1)
    /\ lastCall = "navigate: new query"

\* C6: a dispatch cycle that fails has recorded the state `error` when it
\* ends: for the resolved route when a middleware blocked or the handler
\* threw, under "not-found" when no route was resolved.
C6_FailureRecordsError ==
    [][\A c \in 1..Len(cycles') :
          Ends(c) =>
            /\ (cycles'[c].routeName # NULL /\ cycles'[c].handlerOutcome # "returned")
                 => get(Router'.routeStates, cycles'[c].routeName) = "error"
            /\ cycles'[c].routeName = NULL
                 => get(Router'.routeStates, "not-found") = "error"]_vars

\* C7: a dispatch cycle that ends has called every subscribed listener
\* exactly once, whatever its outcome.
C7_EveryCycleNotifies ==
    [][\A c \in 1..Len(cycles') :
          Ends(c) => cycles'[c].notified = Router'.listeners]_vars

\* The status the outcome of a run calls for.
ExpectedStatus(c) ==
    IF NotFound(c) THEN 404
    ELSE IF MiddlewareRejected(c) THEN 400
    ELSE IF HandlerFailed(c) THEN 500
    ELSE 200

\* C8: a dispatch cycle that has ended has handed exactly one result to its
\* callback, of the class of its outcome.
C8_OneResultPerCycle ==
    \A c \in Cycles : Done(c) => cycles[c].surfaced = <<ExpectedStatus(c)>>

\* C9: with no fallback route registered, a cycle whose target resolves to
\* no route invokes no middleware and no handler, hands 404 to its callback
\* and ends with the lock released.
C9_NotFoundCycle ==
    \A c \in Cycles :
        (Unresolved(cycles[c].queryRoute) /\ routeIndex(Router.routes, "/404") = 0) =>
            /\ Done(c)
            /\ cycles[c].settled = <<>>
            /\ cycles[c].handlerCalls = 0
            /\ cycles[c].surfaced = <<404>>
            /\ ~cycles[c].lockAfter

\* C9 witness: navigate("/nowhere") was accepted and its cycle has ended.
C9_Witness ==
    \E c \in Cycles :
        /\ cycles[c].origin = "navigate"
        /\ cycles[c].queryRoute = "/nowhere"
        /\ Done(c)

\* C10: a cycle in which a middleware returned a falsy value or threw has
\* ended with the lock released.
C10_RejectionReleasesLock ==
    \A c \in Cycles : MiddlewareRejected(c) => ~cycles[c].lockAfter

\* C10 witness: a cycle started by navigate was rejected by a middleware that
\* threw, and the navigate issued after its end was accepted.
C10_Witness ==
    /\ Len(cycles) = 2
    /\ cycles[1].origin = "navigate" /\ cycles[2].origin = "navigate"
    /\ MiddlewareRejected(1)
    /\ \E i \in 1..Len(cycles[1].settled) : cycles[1].settled[i] = "threw"
    /\ \E i \in 1..Len(cycles[1].settled) : cycles[1].settled[i] = "truthy"

\* The runs that resolved a route with an entry in the table, and that entry.
Resolved(c) == cycles[c].handler # NULL
RouteOf(c) == Router.routes[routeIndex(Router.routes, cycles[c].routeName)]

\* The pipeline of the run c has settled and handle() has gone on after it.
PipelineOver(c) == cycles[c].pc \in {"handler", "done"}

\* Every middleware of the route of the run c returned a truthy value.
AllPassed(c) ==
    \A i \in 1..Len(RouteOf(c).middlewares) :
        i \in DOMAIN cycles[c].settled /\ cycles[c].settled[i] = "truthy"

\* C11: in a dispatch cycle of a resolved route the handler is invoked if and
\* only if every middleware of the route returned a truthy value without
\* throwing (an empty list passes, a falsy or a throwing middleware blocks),
\* and it is invoked at most once per cycle.
C11_HandlerIffAllPass ==
    \A c \in Cycles :
        Resolved(c) =>
            /\ cycles[c].handlerCalls <= 1
            /\ cycles[c].handlerCalls = 1 => AllPassed(c)
            /\ (PipelineOver(c) /\ AllPassed(c)) => cycles[c].handlerCalls = 1

\* An empty list has let the handler run, and a list whose first middleware
\* passed and whose second threw has ended its run without the handler.
C11_Witness ==
    \E c, d \in Cycles :
        /\ Resolved(c) /\ RouteOf(c).middlewares = <<>>
        /\ cycles[c].handlerCalls = 1
        /\ Resolved(d) /\ Done(d) /\ cycles[d].handlerCalls = 0
        /\ cycles[d].settled = <<"truthy", "threw">>

\* C12: the pipeline never short-circuits: in every dispatch cycle of a
\* resolved route every middleware of the route is called exactly once, each
\* with the one context object of the cycle, whatever its siblings returned.
C12_NoShortCircuit ==
    \A c \in Cycles :
        Resolved(c) =>
            /\ Len(cycles[c].invoked) = Len(RouteOf(c).middlewares)
            /\ \A i \in 1..Len(cycles[c].invoked) :
                  /\ cycles[c].invoked[i].middleware = RouteOf(c).middlewares[i]
                  /\ cycles[c].invoked[i].context = cycles[c].context

\* The first middleware of a run has returned falsy and the second one, called
\* all the same, has settled after it.
C12_Witness ==
    \E c \in Cycles :
        /\ Resolved(c) /\ Len(RouteOf(c).middlewares) = 2
        /\ cycles[c].settled[1] = "falsy"
        /\ cycles[c].settled[2] = "truthy"
        /\ Len(cycles[c].invoked) = 2

\* What resolving the route name yields in the router R: the handler and the
\* middlewares of the entry getParsedQuery() and the lookup of handle() select
\* when the query's route parameter is name.
Resolve(R, name) ==
    LET query == getParsedQuery([R EXCEPT !.currentQuery = <<<<"route", name>>>>])
        i == routeIndex(R.routes, query.routeName)
    IN IF i = 0 THEN [found |-> FALSE, key |-> NULL, handler |-> NULL,
                      middlewares |-> <<>>, params |-> <<>>]
       ELSE [found |-> TRUE, key |-> R.routes[i].key,
             handler |-> R.routes[i].handler,
             middlewares |-> R.routes[i].middlewares,
             params |-> query.params]

Registered(R, p) == \E i \in 1..Len(R.routes) : R.routes[i].key = p

\* The place of the pattern p in the enumeration order of the table of R.
PlaceOf(R, p) == CHOOSE i \in 1..Len(R.routes) : R.routes[i].key = p

NoDuplicatePatterns ==
    \A i, j \in 1..Len(Router.routes) :
        Router.routes[i].key = Router.routes[j].key => i = j

\* C13: resolving a registered pattern p yields the handler and the
\* middlewares of the most recent register(p, ...): a register call makes p
\* resolve to its own arguments and leaves what every other registered pattern
\* resolves to as it was, and the table never holds two entries for a pattern.
C13_LastRegistrationWins ==
    /\ []NoDuplicatePatterns
    /\ [][\A p \in RegistryPatterns, h \in HandlerArguments,
             m \in MiddlewareArguments :
             (Register(p, h, m) /\ lastCall' = "register: stored") =>
                /\ Resolve(Router', p).handler = h.id
                /\ Resolve(Router', p).middlewares = storedMiddlewares(m)
                /\ \A q \in RegistryPatterns \ {p} :
                      Registered(Router, q) =>
                          Resolve(Router', q) = Resolve(Router, q)]_vars

\* A register call has stored an entry, all three patterns are registered and
\* each resolves to its own entry.
C13_Witness ==
    /\ lastCall = "register: stored"
    /\ Len(Router.routes) = 3
    /\ Resolve(Router, "/home").handler = "h2"
    /\ Resolve(Router, "/home").middlewares = <<"auth", "audit">>
    /\ Resolve(Router, "/about/:id").handler = "h1"

\* The dynamic patterns of the table that accept the route name.
Accepting(R, name) ==
    {i \in 1..Len(R.routes) :
        R.routes[i].isDynamic /\ regexMatch(R.routes[i].key, name)}

\* C14: when several dynamic patterns accept a route name, the one registered
\* first wins and params carries that pattern's parameter names: with
\* /about/:id registered before /about/:slug, /about/42 resolves to /about/:id
\* with params = {id: "42"} and no slug key.  A pattern registered for the
\* first time takes its place after all patterns registered before it, and no
\* register call changes the order of the others.
C14_FirstRegisteredWins ==
    /\ [](\A i \in Accepting(Router, "/about/42") :
             (\A j \in Accepting(Router, "/about/42") : i <= j) =>
                 /\ Resolve(Router, "/about/42").key = Router.routes[i].key
                 /\ Resolve(Router, "/about/42").params =
                        <<<<ParamName(Segments(Router.routes[i].key)[2]), "42">>>>)
    /\ []((/\ Registered(Router, "/about/:id")
           /\ Registered(Router, "/about/:slug")
           /\ PlaceOf(Router, "/about/:id") < PlaceOf(Router, "/about/:slug")) =>
              /\ Resolve(Router, "/about/42").key = "/about/:id"
              /\ Resolve(Router, "/about/42").params = <<<<"id", "42">>>>
              /\ ~has(Resolve(Router, "/about/42").params, "slug"))
    /\ [][\A p, q \in RegistryPatterns :
             (Registered(Router, p) /\ p # q) =>
                /\ Registered(Router', p)
                /\ Registered(Router, q) =>
                      (PlaceOf(Router', p) < PlaceOf(Router', q)
                          <=> PlaceOf(Router, p) < PlaceOf(Router, q))
                /\ (~Registered(Router, q) /\ Registered(Router', q)) =>
                      PlaceOf(Router', p) < PlaceOf(Router', q)]_vars

\* Both dynamic patterns are in the table, /about/:id registered first.
C14_Witness ==
    /\ Registered(Router, "/about/:id") /\ Registered(Router, "/about/:slug")
    /\ PlaceOf(Router, "/about/:id") < PlaceOf(Router, "/about/:slug")
    /\ Resolve(Router, "/about/42").params = <<<<"id", "42">>>>

\* The arguments register() must refuse: a handler that is no function, or
\* middlewares that are neither a function nor an array of functions only.
InvalidRegistration(h, m) ==
    \/ h.type # "function"
    \/ /\ m.type # "function"
       /\ ~(/\ m.type = "array"
            /\ \A i \in 1..Len(m.items) : m.items[i].type = "function")

\* C15: register throws when the handler is no function or the middlewares are
\* neither a function nor an array of functions, and then leaves the table as
\* it was; a single function given as middlewares is stored as a one-element
\* list.
C15_InvalidRegistrationThrows ==
    [][\A p \in RegistryPatterns, h \in HandlerArguments,
          m \in MiddlewareArguments :
          Register(p, h, m) =>
             /\ InvalidRegistration(h, m) =>
                   (lastCall' = "register: threw" /\ Router' = Router)
             /\ ~InvalidRegistration(h, m) => lastCall' = "register: stored"
             /\ (~InvalidRegistration(h, m) /\ m.type = "function") =>
                   Resolve(Router', p).middlewares = <<m.id>>]_vars

\* A register call has thrown with entries in the table, one of them stored
\* with a one-element middleware list.
C15_Witness ==
    /\ lastCall = "register: threw"
    /\ Len(Router.routes) = 2
    /\ Resolve(Router, "/home").middlewares = <<"auth">>

\* A JavaScript object as a map: its keys, and for each key its value.
Keys(o) == {o[i][1] : i \in 1..Len(o)}
AsMap(o) == [k \in Keys(o) |-> get(fromEntries(o), k)]

\* The map the round trip must give for navigate(path, query): the target's
\* embedded parameters, overlaid with query, plus route = the base name.
Overlay(path, query) ==
    LET embedded == searchParams(path)
    IN [k \in Keys(embedded) \cup Keys(query) \cup {"route"} |->
           IF k = "route" THEN Head(path)
           ELSE IF k \in Keys(query) THEN AsMap(query)[k]
           ELSE AsMap(embedded)[k]]

\* C16: getCurrentQuery() read right after navigate(target, q) returns, the
\* lock being free at the call, is the map of the target's embedded query
\* parameters overlaid with q, plus route = the target's base name.
C16_NavigateRoundTrip ==
    [][\A path \in ApiTargets, query \in ApiQueries :
          (~Router.navigating /\ Navigate(path, query, FALSE)) =>
              AsMap(getCurrentQuery(Router')) = Overlay(path, query)]_vars

\* navigate('/about/42?id=1', {id: '7'}) has been accepted: the override has
\* replaced the embedded value.
C16_Witness ==
    /\ lastCall = "navigate: new query"
    /\ AsMap(getCurrentQuery(Router)) =
          [k \in {"id", "route"} |-> IF k = "id" THEN "7" ELSE "/about/42"]

\* C17: refresh(overrides) navigates to the current query with the overrides
\* merged onto it: every key of the current query the overrides do not mention
\* keeps its value, every key of the overrides takes the override's value
\* (the route key is left to C18).
C17_RefreshMergesOverrides ==
    [][\A newParams \in ApiParams :
          (~Router.navigating /\ Refresh(TRUE, newParams)) =>
              LET before == AsMap(getCurrentQuery(Router))
                  after == AsMap(getCurrentQuery(Router'))
              IN /\ \A k \in (DOMAIN before \ Keys(newParams)) \ {"route"} :
                       k \in DOMAIN after /\ after[k] = before[k]
                 /\ \A k \in Keys(newParams) \ {"route"} :
                       k \in DOMAIN after /\ after[k] = AsMap(newParams)[k]]_vars

IsPrefix(s, t) == Len(s) <= Len(t) /\ SubSeq(t, 1, Len(s)) = s

\* C19: the navigation history is append-only: over every step (register,
\* navigate, refresh, popstate, a continuation of a cycle) the history before
\* the step is a prefix of the history after it, and a popstate event or a
\* dropped navigate appends nothing.
C19_HistoryAppendOnly ==
    [][/\ IsPrefix(Router.history, Router'.history)
       /\ lastCall' \in {"popstate", "navigate: lock held", "refresh: lock held",
                         "navigate: same query", "refresh: same query"} =>
             Router'.history = Router.history]_vars

\* Two navigations are in the history and a navigate call dropped for the lock
\* has come after them.
C19_Witness ==
    /\ Len(Router.history) = 2
    /\ Router.history[1] # Router.history[2]
    /\ lastCall = "navigate: lock held"

\* The run c reaches notifyListeners in this step.
Notifies(c) == Ends(c) /\ cycles'[c].exit \in {"completed", "listener-threw"}

\* The listeners of a list up to and including the first that throws.
UpToFirstThrow(listeners) ==
    LET throwers == {i \in 1..Len(listeners) : listeners[i] = "boom"}
    IN IF throwers = {} THEN listeners
       ELSE SubSeq(listeners, 1, CHOOSE i \in throwers : \A j \in throwers : i <= j)

\* The list of listeners is the list of the subscriptions made since the last
\* clearListeners(), in subscription order.
ListenersAreSubscriptions ==
    /\ \A listener \in Callbacks :
          (OnChange(listener) /\ lastCall' = "onChange: subscribed") =>
              Router'.listeners = Append(Router.listeners, listener.id)
    /\ lastCall' = "clearListeners" => Router'.listeners = <<>>
    /\ lastCall' \notin {"onChange: subscribed", "clearListeners"} =>
          Router'.listeners = Router.listeners

\* C20 as stated: a notification calls each subscribed listener exactly once,
\* in subscription order, and only listeners subscribed since the last
\* clearListeners().
C20_NotifiesEverySubscriber ==
    [][/\ ListenersAreSubscriptions
       /\ \A c \in 1..Len(cycles') :
             Notifies(c) => cycles'[c].notified = Router.listeners]_vars

\* C20: a notification calls the listeners subscribed since the last
\* clearListeners(), once per subscription and in subscription order, up to
\* and including the first listener that throws; the listeners subscribed
\* after a listener that throws are not called by that notification.
C20_NotifiesUpToFirstThrow ==
    [][/\ ListenersAreSubscriptions
       /\ \A c \in 1..Len(cycles') :
             Notifies(c) =>
                 cycles'[c].notified = UpToFirstThrow(Router.listeners)]_vars

\* A notification has stopped at a throwing listener that was subscribed
\* before another one: the later listener has not been called.
C20_Witness ==
    \E c \in Cycles :
        /\ cycles[c].exit = "listener-threw"
        /\ Router.listeners = <<"boom", "l1">>
        /\ cycles[c].notified = <<"boom">>

\* C21: a handler failure is never propagated as an exception: a cycle whose
\* handler threw still returns normally from handle() (its promise resolves,
\* nothing is thrown out of the cycle).
C21_HandlerFailureNotPropagated ==
    \A c \in Cycles : HandlerFailed(c) => cycles[c].exit = "completed"

\* C22: the lock is held for the whole life of a dispatch cycle started by
\* navigate: while such a cycle has not reached a terminal outcome the lock is
\* true, in every interleaving with popstate events and other cycles.
C22_LockHeldWhileInFlight ==
    \A c \in Cycles :
        (cycles[c].origin = "navigate" /\ ~Done(c)) => Router.navigating

\* C23: on a popstate event the router reads the location's query into its
\* current query and starts a dispatch cycle for the route that query names,
\* without appending a history entry and without pushing onto the location.
C23_PopstateRedispatches ==
    [][lastCall' = "popstate" =>
          /\ Router'.currentQuery = URLSearchParams(window'.search)
          /\ Len(cycles') = Len(cycles) + 1
          /\ cycles'[Len(cycles')].origin = "popstate"
          /\ cycles'[Len(cycles')].queryRoute =
                 get(URLSearchParams(window'.search), "route")
          /\ Router'.history = Router.history
          /\ window'.entries = window.entries
          /\ window'.pushes = window.pushes]_vars

\* After an accepted navigation to /about/42 the user went back to the first
\* entry: the current query is that entry's query and a cycle is dispatching
\* the route it names.
C23_Witness ==
    /\ lastCall = "popstate"
    /\ Len(Router.history) = 1
    /\ get(Router.history[1].query, "route") = "/about/42"
    /\ get(Router.currentQuery, "route") = "/home"
    /\ cycles[Len(cycles)].origin = "popstate"
    /\ cycles[Len(cycles)].routeName = "/home"

\* C24: when the target resolves to no registered route and a fallback route
\* '/404' is registered, the cycle runs the middlewares and the handler of
\* '/404' instead of ending as not found.
C24_FallbackHandlesUnknownRoute ==
    \A c \in Cycles :
        (Unresolved(cycles[c].queryRoute)
            /\ routeIndex(Router.routes, "/404") # 0) =>
                /\ cycles[c].exit # "no-route"
                /\ cycles[c].handler = "notFoundHandler"

\* C25: when a dispatch cycle started by navigate() notifies its listeners the
\* lock has already been released: a navigate() to a different query issued
\* from inside a listener callback is accepted, not dropped.
C25_ListenerFindsLockFree ==
    \A c \in Cycles :
        cycles[c].origin = "navigate" =>
            \A i \in 1..Len(cycles[c].reentrant) :
                cycles[c].reentrant[i] # "navigate: lock held"

\* The onceWrapper number w is in the list of the event.
OnceRegistered(em, event, w) ==
    \E i \in 1..Len(em.events[event]) : em.events[event][i].wrapper = w

\* C26: a listener registered with once(event, l) is invoked exactly once over
\* any sequence of emit(event) calls made after the registration, also when
\* emit(event) is called again from inside a listener of the event: it is
\* never invoked twice, an emit(event) that finds it registered invokes it,
\* and once invoked it is no longer registered.
C26_OnceInvokedOnce ==
    /\ [](\A w \in 1..Len(Emitter.invoked) :
             /\ Emitter.invoked[w] <= 1
             /\ Emitter.invoked[w] = 1 =>
                   \A event \in Events : ~OnceRegistered(Emitter, event, w))
    /\ [][\A event \in Events, w \in 1..Len(Emitter.invoked) :
             (Emit(event) /\ OnceRegistered(Emitter, event, w)) =>
                 Emitter'.invoked[w] = 1]_vars

\* C27: set(key, value) stores the value under the key and then calls every
\* callback subscribed to the key once with (key, value), in subscription
\* order, and completes without error; callbacks subscribed to other keys
\* only are not called; set(key, value, false) stores and calls no callback.
C27_SetStoresAndNotifies ==
    [][\A key \in StateKeys, value \in StateValues :
          /\ Set(key, value, TRUE) =>
                /\ lastCall' = "set: returned"
                /\ get(stateManager'.state, key) = value
                /\ stateManager'.delivered =
                       [i \in 1..Len(stateManager.subscribers[key]) |->
                           <<stateManager.subscribers[key][i], key, value>>]
          /\ Set(key, value, FALSE) =>
                /\ lastCall' = "set: returned"
                /\ get(stateManager'.state, key) = value
                /\ stateManager'.delivered = <<>>]_vars

\* C28: within a dispatch cycle the handler starts only after every middleware
\* of the route has settled, however the middlewares interleave: handle() is
\* past its pipeline only when no middleware is pending, and the handler
\* finds on the shared context the field of every middleware that passed.
C28_HandlerAfterPipeline ==
    \A c \in Cycles :
        Resolved(c) =>
            /\ PipelineOver(c) =>
                  /\ Len(cycles[c].settled) = Len(RouteOf(c).middlewares)
                  /\ \A i \in 1..Len(cycles[c].settled) :
                        cycles[c].settled[i] # "pending"
            /\ cycles[c].handlerCalls >= 1 =>
                  \A i \in 1..Len(RouteOf(c).middlewares) :
                      cycles[c].settled[i] = "truthy" =>
                          RouteOf(c).middlewares[i] \in cycles[c].handlerSaw

\* The handler of a route with two middlewares has started and has found the
\* fields of both on its context.
C28_Witness ==
    \E c \in Cycles :
        /\ Resolved(c) /\ RouteOf(c).middlewares = <<"auth", "audit">>
        /\ cycles[c].handlerCalls = 1
        /\ cycles[c].handlerSaw = {"auth", "audit"}

\* The registered dynamic patterns whose matcher accepts name.
AcceptedBy(R, name) ==
    {i \in 1..Len(R.routes) :
        R.routes[i].isDynamic /\ regexMatch(R.routes[i].key, name)}

\* C29: exact matches take precedence over dynamic matching regardless of
\* registration order: when /about/me is a registered static pattern and a
\* registered dynamic pattern accepts it too, wherever either stands in the
\* table, the name resolves to the static entry (its handler, its
\* middlewares) and no capture of a dynamic pattern is made.
C29_StaticBeforeDynamic ==
    (Registered(Router, "/about/me") /\ AcceptedBy(Router, "/about/me") # {}) =>
        LET i == PlaceOf(Router, "/about/me")
            found == Resolve(Router, "/about/me")
        IN /\ getParsedQuery([Router EXCEPT
                  !.currentQuery = <<<<"route", "/about/me">>>>]).routeName
                  = "/about/me"
           /\ found.key = "/about/me"
           /\ found.handler = Router.routes[i].handler
           /\ found.middlewares = Router.routes[i].middlewares
           /\ found.params = <<>>

\* /about/:id was registered before /about/me, with another handler, and
\* /about/me resolves to its own entry.
C29_Witness ==
    /\ Registered(Router, "/about/me") /\ Registered(Router, "/about/:id")
    /\ PlaceOf(Router, "/about/:id") < PlaceOf(Router, "/about/me")
    /\ Router.routes[PlaceOf(Router, "/about/:id")].handler = "h1"
    /\ Resolve(Router, "/about/me").handler = "h2"

\* The segments of the pattern at which it has a :token.
TokenPlaces(pattern) ==
    {i \in 1..Len(Segments(pattern)) : IsToken(Segments(pattern)[i])}

\* The name has as many segments as the pattern, its segments equal the
\* literal segments of the pattern and are not empty where the pattern has a
\* token.
SegmentwiseAccepts(pattern, name) ==
    /\ Len(Segments(name)) = Len(Segments(pattern))
    /\ \A i \in 1..Len(Segments(pattern)) :
          IF i \in TokenPlaces(pattern)
          THEN Segments(name)[i] # ""
          ELSE Segments(name)[i] = Segments(pattern)[i]

\* The runs that a dynamic pattern (not an exact lookup) resolved.
MatchedDynamically(c) ==
    /\ cycles[c].routeName # NULL
    /\ isDynamicName(cycles[c].routeName)
    /\ cycles[c].queryRoute # cycles[c].routeName

\* C30: a dynamic pattern accepts a route name only if the name has exactly
\* as many path segments as the pattern, every literal segment is equal and
\* every :token position holds one non-empty segment; the value captured for
\* each token is that whole segment.
C30_DynamicMatchIsSegmentwise ==
    \A c \in Cycles :
        MatchedDynamically(c) =>
            LET pattern == cycles[c].routeName
                name == cycles[c].queryRoute
            IN /\ SegmentwiseAccepts(pattern, name)
               /\ \A i \in TokenPlaces(pattern) :
                     get(cycles[c].context.params,
                         ParamName(Segments(pattern)[i])) = Segments(name)[i]

\* The query object of the entry navigate() pushed last onto Router.history.
LastPushed(R) == R.history[Len(R.history)].query

\* C31: query merge precedence in navigate(target, overrides): in the merged
\* query an accepted navigate() records and puts into the location, a key
\* present both in the target's embedded query and in overrides has the
\* override's value, a key only the target carries keeps the target's value,
\* and the route field is the target's base name, also when the embedded
\* query or the overrides carry a route key of their own.
C31_OverridesWinRouteIsBase ==
    [][\A path \in MergeTargets, query \in MergeQueries :
          (/\ ~Router.navigating
           /\ Navigate(path, query, FALSE)
           /\ lastCall' = "navigate: new query") =>
              /\ Len(Router'.history) = Len(Router.history) + 1
              /\ get(LastPushed(Router'), "route") = Head(path)
              /\ \A k \in Keys(query) \ {"route"} :
                    get(LastPushed(Router'), k) = get(fromEntries(query), k)
              /\ \A k \in (Keys(searchParams(path)) \ Keys(query)) \ {"route"} :
                    get(LastPushed(Router'), k) =
                        get(fromEntries(searchParams(path)), k)
              /\ \A i, j \in 1..Len(LastPushed(Router')) :
                    LastPushed(Router')[i][1] = LastPushed(Router')[j][1] => i = j
              /\ URLSearchParams(window'.search) = LastPushed(Router')]_vars

\* navigate('/about/42?route=/nowhere&id=1', {route: '/nowhere', id: '7'}) was
\* accepted: the route field is /about/42 and id is the override's 7.
C31_Witness ==
    /\ lastCall = "navigate: new query"
    /\ Router.history # <<>>
    /\ AsMap(LastPushed(Router)) =
          [k \in {"route", "id"} |-> IF k = "id" THEN "7" ELSE "/about/42"]
    /\ window.search = <<"?", "route", "=", "/about/42", "&", "id", "=", "7">>

\* C32: query serialization is canonical: a navigate() whose merged map has
\* the same key/value pairs as the current query map, in whatever order the
\* keys were supplied, is a no-op (no history entry, no dispatch).
C32_SameMapIsNoOp ==
    [][\A path \in MergeTargets, query \in MergeQueries :
          (/\ ~Router.navigating
           /\ AsMap(mergedQueryOf(path, query)) = AsMap(getCurrentQuery(Router))
           /\ Navigate(path, query, FALSE)) =>
              /\ Router' = Router
              /\ window' = window
              /\ cycles' = cycles]_vars

\* C33: a listener that throws during the notification at the end of a
\* dispatch cycle started by navigate() has its error propagated out of
\* handle(), and the lock is released for that cycle all the same: when the
\* run has ended the lock is free, so a later navigate() is not dropped.
C33_ThrowingListenerReleasesLock ==
    \A c \in Cycles :
        (cycles[c].origin = "navigate" /\ cycles[c].exit = "listener-threw") =>
            /\ ~cycles[c].lockAfter
            /\ (c = Len(cycles) => ~Router.navigating)

\* Router.routeStates[r], null when the route has no state yet.
StateOf(R, r) == get(R.routeStates, r)

\* C34: route state transitions within one dispatch cycle are monotonic: the
\* state of the resolved route is `loading` when its middlewares are invoked;
\* a step changes the state of a route only to `loading`, by the run that has
\* just resolved that route, or to `success`, by a run of that route whose
\* middlewares all passed and whose handler returns in that step; so a run
\* whose middleware blocked or whose handler threw never writes `success`,
\* and the states of the routes not being dispatched stay as they are.
C34_RouteStatesMonotonic ==
    /\ [](\A c \in Cycles :
            Resolved(c) => cycles[c].stateWhenInvoked = "loading")
    /\ [][\A r \in Keys(Router.routeStates) \cup Keys(Router'.routeStates) :
            StateOf(Router', r) # StateOf(Router, r) =>
                \/ /\ StateOf(Router', r) = "loading"
                   /\ Len(cycles') = Len(cycles) + 1
                   /\ cycles'[Len(cycles')].routeName = r
                   /\ cycles'[Len(cycles')].handler # NULL
                \/ /\ StateOf(Router', r) = "success"
                   /\ \E c \in Cycles :
                         /\ cycles[c].routeName = r
                         /\ cycles[c].pc = "handler"
                         /\ AllPassed(c)
                         /\ cycles[c].handlerOutcome = "none"
                         /\ cycles'[c].handlerOutcome = "returned"]_vars

\* One run has completed and left its route in `success`; a later run of
\* another route was blocked by a middleware and left that route in `loading`.
C34_Witness ==
    \E c, d \in Cycles :
        /\ cycles[c].handlerOutcome = "returned"
        /\ StateOf(Router, cycles[c].routeName) = "success"
        /\ cycles[d].exit = "rejected"
        /\ cycles[d].routeName # cycles[c].routeName
        /\ StateOf(Router, cycles[d].routeName) = "loading"

\* C35: whenever a handler registered under a dynamic pattern is invoked, the
\* params of its context hold a non-empty value for every :name token of the
\* pattern, whatever route name led to the handler, the text of the pattern
\* itself included.
C35_DynamicHandlerGetsParams ==
    \A c \in Cycles :
        (/\ cycles[c].handlerCalls >= 1
         /\ cycles[c].routeName # NULL
         /\ isDynamicName(cycles[c].routeName)) =>
            \A i \in TokenPlaces(cycles[c].routeName) :
                LET name == ParamName(Segments(cycles[c].routeName)[i])
                IN /\ has(cycles[c].context.params, name)
                   /\ get(cycles[c].context.params, name) # ""

\* C36: refresh keeps the concrete target of a dynamically matched route:
\* with a route name current that a dynamic pattern matched (/about/42
\* matched by /about/:id) and the lock free, refresh(overrides) leaves a query
\* whose route field is still that concrete name, and the run it starts
\* invokes the same handler with the same params.
C36_RefreshKeepsConcreteTarget ==
    [][\A newParams \in ApiParams :
          (/\ ~Router.navigating
           /\ Router.currentPath # NULL
           /\ isDynamicName(Router.currentPath)
           /\ get(Router.currentQuery, "route") # Router.currentPath
           /\ Refresh(TRUE, newParams)) =>
              /\ get(Router'.currentQuery, "route") =
                     get(Router.currentQuery, "route")
              /\ Len(cycles') = Len(cycles) + 1 =>
                    /\ cycles'[Len(cycles')].handler =
                           Resolve(Router, get(Router.currentQuery, "route")).handler
                    /\ cycles'[Len(cycles')].context.params =
                           Resolve(Router, get(Router.currentQuery, "route")).params]_vars

\* getCurrentQuery() is the query of the current entry of the location.
Mirrors(R, win) ==
    /\ win.search = win.entries[win.pos]
    /\ getCurrentQuery(R) = fromEntries(URLSearchParams(win.search))

\* C37: the router's current query mirrors the external location: after every
\* call of navigate() (accepted, dropped because the lock is held, same-query
\* no-op, or opened in a new context with _blank) and after every popstate
\* event, getCurrentQuery() equals the query of the location's current entry.
C37_CurrentQueryMirrorsLocation ==
    lastCall \in {"navigate: new query", "navigate: lock held",
                  "navigate: same query", "navigate: new context",
                  "popstate"}
        => Mirrors(Router, window)

\* The user went back to the first entry after an accepted navigate(): the
\* router reads the query of that entry.
C37_Witness ==
    /\ lastCall = "popstate"
    /\ Len(window.entries) >= 2 /\ window.pos = 1
    /\ Len(Router.history) >= 1
    /\ getCurrentQuery(Router) = <<<<"route", "/home">>>>
    /\ getCurrentQuery(Router) # Router.history[Len(Router.history)].query

\* C38: the source render(path) hands to the template engine is always
\* template text fetched for that path or stored with cache.add, never the
\* FETCHING placeholder, also when calls for one uncached path overlap; and
\* when the fetch of a path has failed the cache has no entry for the path
\* afterwards (unless another call has stored one), so that a later preload
\* fetches again.
C38_EngineNeverGetsPlaceholder ==
    /\ [](\A i \in 1..Len(Template.calls) :
             \A j \in 1..Len(Template.calls[i].engine) :
                 /\ Template.calls[i].engine[j] # Template.FETCHING
                 /\ Template.calls[i].engine[j] \in
                        {Fetched(Template.calls[i].path)} \cup AddedTexts)
    /\ [][\A i \in 1..Len(Template.calls) :
            (/\ Template.calls[i].pc = "get"
             /\ GetSettles(i, FALSE)
             /\ has(Template.caches, Template.calls[i].path)
             /\ get(Template.caches, Template.calls[i].path) = Template.FETCHING)
            => ~has(Template'.caches, Template.calls[i].path)]_vars

====
